---- MODULE Spec2Model ----
(***************************************************************************)
(* Embedding service (meanderings/embedding-service/main.py): a FastAPI    *)
(* application holding one global SentenceTransformer model, loaded by the *)
(* lifespan hook, behind two HTTP middlewares (CORS outermost, bearer-token *)
(* auth inside it) and five routes.                                        *)
(*                                                                         *)
(* Python values:  an Optional[str] is a sequence of length <= 1           *)
(* (<<>> is None, <<s>> is the string s);  the global `model` is a record  *)
(* whose isNone field says whether it is None;  an embedding vector is     *)
(* the record [of |-> text, len |-> n] (the text it encodes, its length).  *)
(***************************************************************************)
EXTENDS Integers, Sequences, FiniteSets, TLC

VARIABLES
    AUTH_TOKEN,   \* main.py:21  os.getenv("EMBEDDING_AUTH_TOKEN")
    model,        \* main.py:25  the global model instance
    phase,        \* lifecycle of the process: starting, serving, failed, stopped
    loads,        \* number of SentenceTransformer(MODEL_NAME) invocations so far
    conn          \* per client connection: the request in flight and its position

vars == <<AUTH_TOKEN, model, phase, loads, conn>>

-----------------------------------------------------------------------------
(* Bounds and input domains *)

MaxBatch == 2

Clients == {"c1", "c2"}

Texts == {"", " ", "a"}

BatchTexts == {"a", "b"}

Secret == "S"

Tokens == {<<>>, <<"">>, <<Secret>>}

AuthHeaders == {<<>>, <<"Bearer " \o Secret>>, <<"Bearer wrong">>, <<Secret>>}

Methods == {"GET", "POST", "OPTIONS"}

Paths == {"/health", "/embed", "/embed/batch", "/model/info"}

ModelDims == {1024, 768}

-----------------------------------------------------------------------------
(* Python helpers *)

None == <<>>

Some(v) == <<v>>

\* An `is not None` test in place of truthiness: "" counts as a value.
Truthy_NotNone(opt) == opt # None

\* Python truthiness of an Optional[str]: None and "" are falsy.
Truthy(opt) == opt # None /\ opt[1] # ""

MODEL_NAME == "intfloat/multilingual-e5-large"

NoModel == [isNone |-> TRUE, dim |-> 0]

SentenceTransformer(d) == [isNone |-> FALSE, dim |-> d]

BatchSeqs == UNION {[1..n -> BatchTexts] : n \in 0..MaxBatch}

-----------------------------------------------------------------------------
(* Requests *)

NoBody == [text |-> None, texts |-> None]

EmbedBodies == {[text |-> Some(t), texts |-> None] : t \in Texts}

EmbedBatchBodies == {[text |-> None, texts |-> Some(s)] : s \in BatchSeqs}

BodiesFor(method, path) ==
    IF method = "POST" /\ path = "/embed" THEN EmbedBodies \cup {NoBody}
    ELSE IF method = "POST" /\ path = "/embed/batch" THEN EmbedBatchBodies
    ELSE {NoBody}

Requests ==
    UNION { UNION { { [method |-> m, path |-> p, auth |-> h, body |-> b]
                      : h \in AuthHeaders, b \in BodiesFor(m, p) }
                    : p \in Paths } : m \in Methods }

NoRequest == [method |-> "", path |-> "", auth |-> None, body |-> NoBody]

-----------------------------------------------------------------------------
(* Responses *)

NoResponse == [status |-> 0, body |-> [kind |-> "none"], headers |-> {}]

\* starlette JSONResponse(content, status_code): the body is the rendered JSON.
JSONResponse(content, status_code) ==
    [status |-> status_code, body |-> content, headers |-> {}]

\* fastapi HTTPException(status_code, detail), rendered as {"detail": detail}.
HTTPException(status_code, detail) ==
    [status |-> status_code, body |-> [kind |-> "detail", detail |-> detail],
     headers |-> {}]

\* fastapi RequestValidationError, rendered as 422 {"detail": [...]}.
RequestValidationError ==
    [status |-> 422, body |-> [kind |-> "detail", detail |-> "validation"],
     headers |-> {}]

HealthDimensions == 1024

ModelInfoDimensions == 1024

HealthResponse ==
    [status |-> 200,
     body |-> [kind |-> "health", status |-> "healthy",
               service |-> "embedding-service", model |-> MODEL_NAME,
               dimensions |-> HealthDimensions],
     headers |-> {}]

\* A model_info that reports loaded=True whatever the model state.
ModelInfoResponse_LoadedAlways(m) ==
    [status |-> 200,
     body |-> [kind |-> "model_info", name |-> MODEL_NAME,
               dimensions |-> ModelInfoDimensions, loaded |-> TRUE,
               languages |-> "100+"],
     headers |-> {}]

ModelInfoResponse(m) ==
    [status |-> 200,
     body |-> [kind |-> "model_info", name |-> MODEL_NAME,
               dimensions |-> ModelInfoDimensions, loaded |-> ~m.isNone,
               languages |-> "100+"],
     headers |-> {}]

\* model.encode(text): the vector of one text, of the instance's dimension.
EncodeOne(m, text) == [of |-> text, len |-> m.dim]

\* model.encode(texts): one vector per text, in input order.
EncodeBatch(m, texts) == [i \in 1..Len(texts) |-> EncodeOne(m, texts[i])]

EmbedResponse(embedding_list) ==
    [status |-> 200,
     body |-> [kind |-> "embed", embedding |-> embedding_list,
               dimensions |-> embedding_list.len, model |-> MODEL_NAME],
     headers |-> {}]

\* An embed_batch that takes len(embeddings_list[0]) without the emptiness
\* test: on an empty result the IndexError is caught and answered 500.
EmbedBatchResponse_IndexFirst(embeddings_list) ==
    IF Len(embeddings_list) = 0
    THEN HTTPException(500, "Failed to generate embeddings")
    ELSE [status |-> 200,
          body |-> [kind |-> "embed_batch", embeddings |-> embeddings_list,
                    dimensions |-> embeddings_list[1].len, model |-> MODEL_NAME],
          headers |-> {}]

\* An embed_batch that reports the number of vectors as the dimensions.
EmbedBatchResponse_DimIsCount(embeddings_list) ==
    [status |-> 200,
     body |-> [kind |-> "embed_batch", embeddings |-> embeddings_list,
               dimensions |-> Len(embeddings_list), model |-> MODEL_NAME],
     headers |-> {}]

EmbedBatchResponse(embeddings_list) ==
    [status |-> 200,
     body |-> [kind |-> "embed_batch", embeddings |-> embeddings_list,
               dimensions |-> IF Len(embeddings_list) > 0
                              THEN embeddings_list[1].len ELSE 0,
               model |-> MODEL_NAME],
     headers |-> {}]

Unauthorized == JSONResponse([kind |-> "json", error |-> "Unauthorized"], 401)

\* JSONResponse(content={}, status_code=204): the rendered body is "{}".
OptionsResponse == JSONResponse([kind |-> "json", json |-> "{}"], 204)

CorsHeaders ==
    { <<"Access-Control-Allow-Origin", "*">>,
      <<"Access-Control-Allow-Methods", "GET, POST, OPTIONS">>,
      <<"Access-Control-Allow-Headers", "Content-Type, Authorization">> }

-----------------------------------------------------------------------------
(* Middleware stack and routes *)

\* The two registrations in the other order: auth outermost.
MiddlewareStack_AuthOutermost == <<"auth_middleware", "cors_middleware">>

\* Outermost first.  @app.middleware registers auth (line 97) and then cors
\* (line 121); each registration wraps the ones before it, so cors is outermost.
MiddlewareStack == <<"cors_middleware", "auth_middleware">>

\* The routes in registration order; "/{path:path}" matches every path.
Routes ==
    << [path |-> "/health",       method |-> "GET",     endpoint |-> "health"],
       [path |-> "/embed",        method |-> "POST",    endpoint |-> "embed"],
       [path |-> "/embed/batch",  method |-> "POST",    endpoint |-> "embed_batch"],
       [path |-> "/model/info",   method |-> "GET",     endpoint |-> "model_info"],
       [path |-> "/{path:path}",  method |-> "OPTIONS", endpoint |-> "options_handler"] >>

PathMatches(route, path) == route.path = "/{path:path}" \/ route.path = path

FullMatches(req) ==
    {i \in 1..Len(Routes) : PathMatches(Routes[i], req.path)
                            /\ Routes[i].method = req.method}

PartialMatches(req) == {i \in 1..Len(Routes) : PathMatches(Routes[i], req.path)}

Min(S) == CHOOSE x \in S : \A y \in S : x <= y

\* The endpoint the router dispatches req to: the first full match, else
\* "405" when only the path matches some route, else "404".
Dispatch(req) ==
    IF FullMatches(req) # {} THEN Routes[Min(FullMatches(req))].endpoint
    ELSE IF PartialMatches(req) # {} THEN "405"
    ELSE "404"

\* str.strip() on the texts of the model: a text of spaces strips to "".
Strip(t) == IF t \in {" ", "  "} THEN "" ELSE t

\* EmbedRequest without min_length.
EmbedRequestValid_NoMinLength(body) == body.text # None

\* EmbedRequest that strips the text before it checks min_length.
EmbedRequestValid_Strip(body) == body.text # None /\ Len(Strip(body.text[1])) >= 1

\* class EmbedRequest: text: str = Field(..., min_length=1)
EmbedRequestValid(body) == body.text # None /\ Len(body.text[1]) >= 1

\* class EmbedBatchRequest: texts: List[str] = Field(..., min_items=1)
EmbedBatchRequestValid(body) == body.texts # None /\ Len(body.texts[1]) >= 1

\* Request models that require the field but not its minimum length.
BodyValid_PresenceOnly(endpoint, body) ==
    CASE endpoint = "embed"       -> body.text # None
      [] endpoint = "embed_batch" -> body.texts # None
      [] OTHER                    -> TRUE

BodyValid(endpoint, body) ==
    CASE endpoint = "embed"       -> EmbedRequestValid(body)
      [] endpoint = "embed_batch" -> EmbedBatchRequestValid(body)
      [] OTHER                    -> TRUE

\* An auth check that also takes the bare token, without the Bearer scheme.
AuthAdmits_SchemeOptional(token, req) ==
    IF req.path = "/health" THEN TRUE
    ELSE IF ~Truthy(token) THEN TRUE
    ELSE IF ~Truthy(req.auth)
            \/ (req.auth[1] # "Bearer " \o token[1] /\ req.auth[1] # token[1])
         THEN FALSE
    ELSE TRUE

\* An auth check without the /health exemption.
AuthAdmits_NoHealthExemption(token, req) ==
    IF ~Truthy(token) THEN TRUE
    ELSE IF ~Truthy(req.auth) \/ req.auth[1] # "Bearer " \o token[1] THEN FALSE
    ELSE TRUE

\* auth_middleware's decision: TRUE when it calls call_next.
AuthAdmits(token, req) ==
    IF req.path = "/health" THEN TRUE
    ELSE IF ~Truthy(token) THEN TRUE
    ELSE IF ~Truthy(req.auth) \/ req.auth[1] # "Bearer " \o token[1] THEN FALSE
    ELSE TRUE

-----------------------------------------------------------------------------
(* Connections *)

Idle ==
    [pc |-> "idle", req |-> NoRequest, lvl |-> 0, resp |-> NoResponse,
     admitted |-> FALSE, endpoint |-> "", invoked |-> FALSE, encodeCalls |-> 0,
     encoded |-> None]

NewConn(r) == [Idle EXCEPT !.pc = "mw", !.req = r, !.lvl = 1]

\* call_next at level k.lvl: the next middleware, or the router below the last.
CallNext(k) ==
    [k EXCEPT !.lvl = k.lvl + 1,
              !.pc = IF k.lvl + 1 > Len(MiddlewareStack) THEN "router" ELSE "mw"]

\* Where a response produced below level l resumes: the nearest enclosing
\* middleware that has code after its call_next (cors), or 0 (the server).
RetLevel(l) ==
    LET S == {i \in 1..l : MiddlewareStack[i] = "cors_middleware"}
    IN IF S = {} THEN 0 ELSE CHOOSE i \in S : \A j \in S : j <= i

Respond(k, resp, l) == [k EXCEPT !.resp = resp, !.lvl = RetLevel(l), !.pc = "ret"]

-----------------------------------------------------------------------------
(* Process lifecycle *)

Init ==
    /\ AUTH_TOKEN \in Tokens
    /\ model = NoModel
    /\ phase = "starting"
    /\ loads = 0
    /\ conn = [c \in Clients |-> Idle]

\* A lifespan whose except branch does not re-raise: startup goes on.
lifespan_startup_swallow ==
    /\ phase = "starting"
    /\ loads' = loads + 1
    /\ \/ \E d \in ModelDims : model' = SentenceTransformer(d)
       \/ model' = model
    /\ phase' = "serving"
    /\ UNCHANGED <<AUTH_TOKEN, conn>>

\* lifespan up to its yield: the load succeeds and the application starts
\* serving, or the load raises, lifespan re-raises and startup fails.
lifespan_startup ==
    /\ phase = "starting"
    /\ loads' = loads + 1
    /\ \/ \E d \in ModelDims :
            /\ model' = SentenceTransformer(d)
            /\ phase' = "serving"
       \/ /\ model' = model
          /\ phase' = "failed"
    /\ UNCHANGED <<AUTH_TOKEN, conn>>

\* lifespan after its yield: the server has drained its connections.
lifespan_shutdown ==
    /\ phase = "serving"
    /\ \A c \in Clients : conn[c].pc \in {"idle", "done"}
    /\ phase' = "stopped"
    /\ UNCHANGED <<AUTH_TOKEN, model, loads, conn>>

\* A server that accepts requests without waiting for the lifespan startup.
Receive_BeforeStartup(c) ==
    /\ phase \in {"starting", "serving"}
    /\ conn[c].pc = "idle"
    /\ \E r \in Requests : conn' = [conn EXCEPT ![c] = NewConn(r)]
    /\ UNCHANGED <<AUTH_TOKEN, model, phase, loads>>

\* uvicorn.run(app): a request is accepted only between a completed startup
\* and shutdown.
Receive(c) ==
    /\ phase = "serving"
    /\ conn[c].pc = "idle"
    /\ \E r \in Requests : conn' = [conn EXCEPT ![c] = NewConn(r)]
    /\ UNCHANGED <<AUTH_TOKEN, model, phase, loads>>

\* The ASGI application called directly, whatever the lifespan did.
Call(c) ==
    /\ conn[c].pc = "idle"
    /\ \E r \in Requests : conn' = [conn EXCEPT ![c] = NewConn(r)]
    /\ UNCHANGED <<AUTH_TOKEN, model, phase, loads>>

-----------------------------------------------------------------------------
(* Middlewares *)

AtMiddleware(c, name) ==
    /\ conn[c].pc = "mw"
    /\ MiddlewareStack[conn[c].lvl] = name

\* cors_middleware up to its await call_next(request).
cors_middleware(c) ==
    /\ AtMiddleware(c, "cors_middleware")
    /\ conn' = [conn EXCEPT ![c] = CallNext(@)]
    /\ UNCHANGED <<AUTH_TOKEN, model, phase, loads>>

\* cors_middleware after call_next returned: the three headers are set.
cors_middleware_headers(c) ==
    /\ conn[c].pc = "ret"
    /\ conn[c].lvl >= 1
    /\ MiddlewareStack[conn[c].lvl] = "cors_middleware"
    /\ conn' = [conn EXCEPT ![c].resp.headers = @ \cup CorsHeaders,
                            ![c].lvl = RetLevel(conn[c].lvl - 1)]
    /\ UNCHANGED <<AUTH_TOKEN, model, phase, loads>>

auth_middleware(c) ==
    /\ AtMiddleware(c, "auth_middleware")
    /\ IF AuthAdmits(AUTH_TOKEN, conn[c].req)
       THEN conn' = [conn EXCEPT ![c] = [CallNext(@) EXCEPT !.admitted = TRUE]]
       ELSE conn' = [conn EXCEPT ![c] = Respond(@, Unauthorized, conn[c].lvl - 1)]
    /\ UNCHANGED <<AUTH_TOKEN, model, phase, loads>>

\* The server writes the response to the connection.
Send(c) ==
    /\ conn[c].pc = "ret"
    /\ conn[c].lvl = 0
    /\ conn' = [conn EXCEPT ![c].pc = "done"]
    /\ UNCHANGED <<AUTH_TOKEN, model, phase, loads>>

\* The exchange is over; the connection can carry the next request.
Close(c) ==
    /\ conn[c].pc = "done"
    /\ conn' = [conn EXCEPT ![c] = Idle]
    /\ UNCHANGED <<AUTH_TOKEN, model, phase, loads>>

-----------------------------------------------------------------------------
(* Router and endpoints *)

Bottom == Len(MiddlewareStack)

\* Routing and request-body validation, before the endpoint is called.
router(c) ==
    /\ conn[c].pc = "router"
    /\ LET e == Dispatch(conn[c].req)
       IN IF e = "404"
          THEN conn' = [conn EXCEPT ![c] =
                          Respond(@, HTTPException(404, "Not Found"), Bottom)]
          ELSE IF e = "405"
          THEN conn' = [conn EXCEPT ![c] =
                          Respond(@, HTTPException(405, "Method Not Allowed"), Bottom)]
          ELSE IF ~BodyValid(e, conn[c].req.body)
          THEN conn' = [conn EXCEPT ![c] = Respond(@, RequestValidationError, Bottom)]
          ELSE conn' = [conn EXCEPT ![c].pc = "endpoint", ![c].endpoint = e]
    /\ UNCHANGED <<AUTH_TOKEN, model, phase, loads>>

AtEndpoint(c, name) ==
    /\ conn[c].pc = "endpoint"
    /\ conn[c].endpoint = name

Return(k, resp) == [Respond(k, resp, Bottom) EXCEPT !.invoked = TRUE]

\* A health endpoint that derives its status from the model state.
health_FromModel(c) ==
    /\ AtEndpoint(c, "health")
    /\ conn' = [conn EXCEPT ![c] =
                  Return(@, [HealthResponse EXCEPT
                               !.body.status = IF model.isNone THEN "loading"
                                               ELSE "healthy"])]
    /\ UNCHANGED <<AUTH_TOKEN, model, phase, loads>>

health(c) ==
    /\ AtEndpoint(c, "health")
    /\ conn' = [conn EXCEPT ![c] = Return(@, HealthResponse)]
    /\ UNCHANGED <<AUTH_TOKEN, model, phase, loads>>

\* embed without its try/except: the exception of encode leaves the endpoint
\* and the middlewares, and the server's own error handler answers 500.
embed_Uncaught(c) ==
    /\ AtEndpoint(c, "embed")
    /\ IF model.isNone
       THEN conn' = [conn EXCEPT ![c] =
                       Return(@, HTTPException(503, "Model not loaded"))]
       ELSE \E raised \in BOOLEAN :
              conn' = [conn EXCEPT ![c] =
                         [(IF raised
                           THEN [Respond(@, [status |-> 500,
                                             body |-> [kind |-> "text",
                                                       text |-> "Internal Server Error"],
                                             headers |-> {}], 0)
                                 EXCEPT !.invoked = TRUE]
                           ELSE Return(@, EmbedResponse(EncodeOne(model, conn[c].req.body.text[1]))))
                          EXCEPT !.encodeCalls = @ + 1]]
    /\ UNCHANGED <<AUTH_TOKEN, model, phase, loads>>

\* embed whose except branch also drops the global model.
embed_ResetModelOnError(c) ==
    /\ AtEndpoint(c, "embed")
    /\ IF model.isNone
       THEN /\ conn' = [conn EXCEPT ![c] =
                          Return(@, HTTPException(503, "Model not loaded"))]
            /\ model' = model
       ELSE \E raised \in BOOLEAN :
              /\ conn' = [conn EXCEPT ![c] =
                            [Return(@, IF raised
                                       THEN HTTPException(500, "Failed to generate embedding")
                                       ELSE EmbedResponse(EncodeOne(model, conn[c].req.body.text[1])))
                             EXCEPT !.encodeCalls = @ + 1]]
              /\ model' = IF raised THEN NoModel ELSE model
    /\ UNCHANGED <<AUTH_TOKEN, phase, loads>>

\* embed without its `if model is None` check: model.encode on None raises
\* inside the try and is answered 500.
embed_NoReadyCheck(c) ==
    /\ AtEndpoint(c, "embed")
    /\ \E raised \in (IF model.isNone THEN {TRUE} ELSE BOOLEAN) :
         conn' = [conn EXCEPT ![c] =
                    [Return(@, IF raised
                               THEN HTTPException(500, "Failed to generate embedding")
                               ELSE EmbedResponse(EncodeOne(model, conn[c].req.body.text[1])))
                     EXCEPT !.encodeCalls = IF model.isNone THEN @ ELSE @ + 1]]
    /\ UNCHANGED <<AUTH_TOKEN, model, phase, loads>>

embed(c) ==
    /\ AtEndpoint(c, "embed")
    /\ IF model.isNone
       THEN conn' = [conn EXCEPT ![c] =
                       Return(@, HTTPException(503, "Model not loaded"))]
       ELSE \E raised \in BOOLEAN :
              conn' = [conn EXCEPT ![c] =
                         [Return(@, IF raised
                                    THEN HTTPException(500, "Failed to generate embedding")
                                    ELSE EmbedResponse(EncodeOne(model, conn[c].req.body.text[1])))
                          EXCEPT !.encodeCalls = @ + 1,
                                 !.encoded = IF raised THEN None
                                             ELSE Some(EncodeOne(model, conn[c].req.body.text[1]))]]
    /\ UNCHANGED <<AUTH_TOKEN, model, phase, loads>>

\* embed_batch that calls encode once per text instead of once per batch.
embed_batch_PerItem(c) ==
    /\ AtEndpoint(c, "embed_batch")
    /\ IF model.isNone
       THEN conn' = [conn EXCEPT ![c] =
                       Return(@, HTTPException(503, "Model not loaded"))]
       ELSE \E raised \in BOOLEAN :
              conn' = [conn EXCEPT ![c] =
                         [Return(@, IF raised
                                    THEN HTTPException(500, "Failed to generate embeddings")
                                    ELSE EmbedBatchResponse(EncodeBatch(model, conn[c].req.body.texts[1])))
                          EXCEPT !.encodeCalls = @ + Len(conn[c].req.body.texts[1])]]
    /\ UNCHANGED <<AUTH_TOKEN, model, phase, loads>>

embed_batch(c) ==
    /\ AtEndpoint(c, "embed_batch")
    /\ IF model.isNone
       THEN conn' = [conn EXCEPT ![c] =
                       Return(@, HTTPException(503, "Model not loaded"))]
       ELSE \E raised \in BOOLEAN :
              conn' = [conn EXCEPT ![c] =
                         [Return(@, IF raised
                                    THEN HTTPException(500, "Failed to generate embeddings")
                                    ELSE EmbedBatchResponse(EncodeBatch(model, conn[c].req.body.texts[1])))
                          EXCEPT !.encodeCalls = @ + 1,
                                 !.encoded = IF raised THEN None
                                             ELSE Some(EncodeBatch(model, conn[c].req.body.texts[1]))]]
    /\ UNCHANGED <<AUTH_TOKEN, model, phase, loads>>

\* The vectors an instance of any dimension can return for the model's texts.
Vectors == [of : BatchTexts, len : ModelDims]

\* What an unconstrained encode can return: any sequence of vectors, the
\* empty one included.
EncodeResults == UNION {[1..n -> Vectors] : n \in 0..MaxBatch}

\* embed_batch with the library's encode left open: it raises, or it returns
\* any sequence of vectors, whatever the texts.
embed_batch_result(c) ==
    /\ AtEndpoint(c, "embed_batch")
    /\ IF model.isNone
       THEN conn' = [conn EXCEPT ![c] =
                       Return(@, HTTPException(503, "Model not loaded"))]
       ELSE \/ conn' = [conn EXCEPT ![c] =
                          [Return(@, HTTPException(500, "Failed to generate embeddings"))
                           EXCEPT !.encodeCalls = @ + 1]]
            \/ \E embeddings_list \in EncodeResults :
                 conn' = [conn EXCEPT ![c] =
                            [Return(@, EmbedBatchResponse(embeddings_list))
                             EXCEPT !.encodeCalls = @ + 1,
                                    !.encoded = Some(embeddings_list)]]
    /\ UNCHANGED <<AUTH_TOKEN, model, phase, loads>>

model_info(c) ==
    /\ AtEndpoint(c, "model_info")
    /\ conn' = [conn EXCEPT ![c] = Return(@, ModelInfoResponse(model))]
    /\ UNCHANGED <<AUTH_TOKEN, model, phase, loads>>

options_handler(c) ==
    /\ AtEndpoint(c, "options_handler")
    /\ conn' = [conn EXCEPT ![c] = Return(@, OptionsResponse)]
    /\ UNCHANGED <<AUTH_TOKEN, model, phase, loads>>

-----------------------------------------------------------------------------
(* Specifications *)

Serve(c) ==
    \/ cors_middleware(c)
    \/ auth_middleware(c)
    \/ router(c)
    \/ health(c)
    \/ embed(c)
    \/ embed_batch(c)
    \/ model_info(c)
    \/ options_handler(c)
    \/ cors_middleware_headers(c)
    \/ Send(c)
    \/ Close(c)

Next ==
    \/ lifespan_startup
    \/ lifespan_shutdown
    \/ \E c \in Clients : Receive(c) \/ Serve(c)

\* The process started by uvicorn.run(app).
Spec == Init /\ [][Next]_vars

\* The application object called directly, with the global model in either
\* state (the lifespan not run, or run to its yield).
InitApp ==
    /\ AUTH_TOKEN \in Tokens
    /\ \/ model = NoModel /\ phase = "starting" /\ loads = 0
       \/ \E d \in ModelDims :
            model = SentenceTransformer(d) /\ phase = "serving" /\ loads = 1
    /\ conn = [c \in Clients |-> Idle]

NextApp == \E c \in Clients : Call(c) \/ Serve(c)

SpecApp == InitApp /\ [][NextApp]_vars

\* The process seen from one connection, with the event loop's scheduling: a
\* request in flight is eventually taken through its next step (every
\* coroutine that is ready runs, and every encode call returns).
NextLive ==
    \/ lifespan_startup
    \/ lifespan_shutdown
    \/ Receive("c1")
    \/ Serve("c1")

SpecLive == Init /\ [][NextLive]_vars /\ WF_vars(Serve("c1"))

\* The application called directly on one connection, with the result of the
\* batched encode unconstrained.
NextEncode ==
    \/ Call("c1")
    \/ cors_middleware("c1")
    \/ auth_middleware("c1")
    \/ router("c1")
    \/ health("c1")
    \/ embed("c1")
    \/ embed_batch_result("c1")
    \/ model_info("c1")
    \/ options_handler("c1")
    \/ cors_middleware_headers("c1")
    \/ Send("c1")
    \/ Close("c1")

SpecEncode == InitApp /\ [][NextEncode]_vars

-----------------------------------------------------------------------------
(* Properties *)

Bearer(token) == Some("Bearer " \o token[1])

Answered(c) == conn[c].pc = "done"

IsEmbed(k) == k.req.method = "POST" /\ k.req.path \in {"/embed", "/embed/batch"}

\* C1: with a non-empty secret S configured, a request to a path other than
\* /health passes the auth gate only if its Authorization header is exactly
\* "Bearer S", and once answered it has passed iff the header is exactly that;
\* with any other header (or none) no endpoint is invoked, encode is never
\* called, and the answer is the 401 Unauthorized response.
C1_AuthGate ==
    \A c \in Clients :
      LET k == conn[c] IN
      (Truthy(AUTH_TOKEN) /\ k.pc # "idle" /\ k.req.path # "/health") =>
        /\ k.admitted => k.req.auth = Bearer(AUTH_TOKEN)
        /\ k.req.auth # Bearer(AUTH_TOKEN) =>
             /\ ~k.invoked
             /\ k.encodeCalls = 0
             /\ k.pc \notin {"router", "endpoint"}
             /\ k.resp.status \in {0, 401}
        /\ Answered(c) =>
             /\ k.admitted <=> k.req.auth = Bearer(AUTH_TOKEN)
             /\ k.req.auth # Bearer(AUTH_TOKEN) => k.resp.body = Unauthorized.body

C1_Witness ==
    /\ Truthy(AUTH_TOKEN)
    /\ \E c, d \in Clients :
         /\ Answered(c) /\ conn[c].req.path = "/embed"
         /\ conn[c].req.auth = Some(Secret) /\ conn[c].resp.status = 401
         /\ Answered(d) /\ conn[d].req.path = "/embed"
         /\ conn[d].req.auth = Bearer(AUTH_TOKEN) /\ conn[d].invoked
         /\ conn[d].resp.status = 200

\* C2: an answered OPTIONS request that carried no credential got the 204
\* response with an empty body, whatever the auth configuration.
C2_OptionsNeverRejected ==
    \A c \in Clients :
      (Answered(c) /\ conn[c].req.method = "OPTIONS" /\ conn[c].req.auth = None) =>
        /\ conn[c].resp.status = 204
        /\ conn[c].resp.body = [kind |-> "empty"]

\* C3: a GET /health request is never rejected by the auth gate and is answered
\* 200 by the health endpoint, whatever the credential, the auth configuration
\* and the model state.
C3_HealthAlways200 ==
    \A c \in Clients :
      LET k == conn[c] IN
      (k.req.method = "GET" /\ k.req.path = "/health") =>
        /\ k.resp.status \in {0, 200}
        /\ Answered(c) => (k.admitted /\ k.invoked /\ k.resp = 
                             [HealthResponse EXCEPT !.headers = k.resp.headers])

C3_Witness ==
    /\ Truthy(AUTH_TOKEN)
    /\ model.isNone
    /\ \E c, d \in Clients :
         /\ Answered(c) /\ conn[c].req.path = "/health" /\ conn[c].req.method = "GET"
         /\ conn[c].req.auth = Some("Bearer wrong") /\ conn[c].resp.status = 200
         /\ Answered(d) /\ conn[d].req.path = "/health" /\ conn[d].req.method = "GET"
         /\ conn[d].req.auth = None /\ conn[d].resp.status = 200

\* C4: an admitted, well-formed /embed or /embed/batch request whose endpoint
\* ran while the model is not loaded is answered 503 and encode was not called;
\* with the model loaded the endpoint called encode (and answered 200 or 500).
C4_ReadinessGate ==
    \A c \in Clients :
      LET k == conn[c] IN
      (k.invoked /\ k.endpoint \in {"embed", "embed_batch"}) =>
        IF model.isNone
        THEN k.resp = [HTTPException(503, "Model not loaded")
                         EXCEPT !.headers = k.resp.headers]
             /\ k.encodeCalls = 0
        ELSE k.encodeCalls = 1 /\ k.resp.status \in {200, 500}

C4_Witness ==
    /\ model.isNone
    /\ \E c, d \in Clients :
         /\ Answered(c) /\ conn[c].endpoint = "embed" /\ conn[c].resp.status = 503
         /\ Answered(d) /\ conn[d].endpoint = "embed_batch"
         /\ conn[d].resp.status = 503

\* C5: the model load is invoked at most once, exactly once when startup is
\* over, and whenever a request has been accepted (so before any endpoint or
\* middleware runs) the one load has completed with the model in place.
C5_LoadOnceBeforeHandlers ==
    /\ loads <= 1
    /\ phase # "starting" => loads = 1
    /\ \A c \in Clients :
         conn[c].pc # "idle" =>
           (loads = 1 /\ ~model.isNone /\ phase \in {"serving", "stopped"})

C5_Witness ==
    /\ loads = 1
    /\ \E c \in Clients : conn[c].invoked /\ conn[c].endpoint = "health"
    /\ \E c \in Clients : conn[c].invoked /\ conn[c].endpoint = "embed"

\* C6: when the load has failed (it ran and left no model) the process is in
\* its failed state, no request has been accepted, and from the failed state
\* nothing changes any more: no second load, no request, no other phase.
C6_LoadFailureTerminal ==
    /\ [](loads >= 1 /\ model.isNone =>
            phase = "failed" /\ loads = 1 /\ \A c \in Clients : conn[c] = Idle)
    /\ [][phase = "failed" => vars' = vars]_vars

C6_Witness == phase = "failed" /\ loads = 1 /\ model.isNone

\* C7: an admitted POST /embed whose text is "" and an admitted POST
\* /embed/batch whose texts is [] never reach their endpoint or encode, are
\* answered 422, and leave the process serving.
C7_EmptyInputRejected ==
    \A c \in Clients :
      LET k == conn[c] IN
      (/\ k.admitted
       /\ \/ k.req.method = "POST" /\ k.req.path = "/embed"
             /\ k.req.body.text = Some("")
          \/ k.req.method = "POST" /\ k.req.path = "/embed/batch"
             /\ k.req.body.texts = Some(<<>>)) =>
        /\ ~k.invoked
        /\ k.encodeCalls = 0
        /\ k.pc # "endpoint"
        /\ k.resp.status \in {0, 422}
        /\ Answered(c) => k.resp.status = 422
        /\ phase \in {"serving", "stopped"}

C7_Witness ==
    \E c, d \in Clients :
      /\ Answered(c) /\ conn[c].req.path = "/embed" /\ conn[c].req.body.text = Some("")
      /\ conn[c].resp.status = 422
      /\ Answered(d) /\ conn[d].req.path = "/embed/batch"
      /\ conn[d].req.body.texts = Some(<<>>) /\ conn[d].resp.status = 422

\* C8 as claimed: an admitted POST /embed whose text is a single space never
\* reaches encode and is answered with a 4xx client error.
C8_WhitespaceRejected ==
    \A c \in Clients :
      LET k == conn[c] IN
      (k.admitted /\ k.req.method = "POST" /\ k.req.path = "/embed"
       /\ k.req.body.text = Some(" ")) =>
        /\ k.encodeCalls = 0
        /\ Answered(c) => k.resp.status \in 400..499

\* C8 amended: an admitted POST /embed whose text is a single space has length
\* 1 and passes validation: it is never answered with a client error, and once
\* answered the embed endpoint has run and called encode once on that text.
C8_WhitespaceAccepted ==
    \A c \in Clients :
      LET k == conn[c] IN
      (k.admitted /\ k.req.method = "POST" /\ k.req.path = "/embed"
       /\ k.req.body.text = Some(" ")) =>
        /\ k.resp.status \notin 400..499
        /\ Answered(c) =>
             /\ k.invoked /\ k.endpoint = "embed" /\ k.encodeCalls = 1
             /\ k.resp.status \in {200, 500}
             /\ k.resp.status = 200 => k.resp.body.embedding.of = " "

C8_Witness ==
    \E c \in Clients :
      /\ Answered(c) /\ conn[c].req.path = "/embed"
      /\ conn[c].req.body.text = Some(" ")
      /\ conn[c].resp.status = 200 /\ conn[c].encodeCalls = 1

\* C9: every answered request's response carries the three cross-origin
\* headers, whatever its status.
C9_CorsOnEveryResponse ==
    \A c \in Clients : Answered(c) => CorsHeaders \subseteq conn[c].resp.headers

C9_Witness ==
    /\ model.isNone
    /\ \E c, d \in Clients :
         /\ Answered(c) /\ conn[c].resp.status = 401
         /\ CorsHeaders \subseteq conn[c].resp.headers
         /\ Answered(d) /\ conn[d].resp.status = 503
         /\ CorsHeaders \subseteq conn[d].resp.headers

C11_BatchOrderAndDimensions ==
    \A c \in Clients :
      LET k == conn[c] IN
      (k.endpoint = "embed_batch" /\ k.resp.status = 200) =>
        LET texts == k.req.body.texts[1]
            out == k.resp.body.embeddings
        IN /\ Len(texts) >= 1
           /\ Len(out) = Len(texts)
           /\ \A i \in 1..Len(texts) :
                /\ out[i] = EncodeOne(model, texts[i])
                /\ out[i].len = k.resp.body.dimensions

C11_Witness ==
    \E c \in Clients :
      /\ Answered(c) /\ conn[c].endpoint = "embed_batch"
      /\ conn[c].req.body.texts = Some(<<"b", "a">>)
      /\ conn[c].resp.status = 200
      /\ conn[c].resp.body.embeddings[1].of = "b"
      /\ conn[c].resp.body.embeddings[2].of = "a"

\* C12: an admitted GET /model/info is answered 200 in every model state, and
\* its loaded field is true exactly when the model is loaded.
C12_ModelInfoAlwaysSucceeds ==
    \A c \in Clients :
      LET k == conn[c] IN
      (k.admitted /\ k.req.method = "GET" /\ k.req.path = "/model/info") =>
        /\ k.resp.status \in {0, 200}
        /\ Answered(c) =>
             /\ k.invoked /\ k.endpoint = "model_info" /\ k.resp.status = 200
             /\ k.resp.body.loaded = ~model.isNone

C12_Witness ==
    /\ model.isNone
    /\ \E c \in Clients :
         /\ Answered(c) /\ conn[c].endpoint = "model_info"
         /\ conn[c].resp.status = 200 /\ conn[c].resp.body.loaded = FALSE

\* C13 as claimed: the /health response reports whether the model is loaded:
\* loaded=false while the model is not loaded, loaded=true once it is.
C13_HealthReportsLoaded ==
    \A c \in Clients :
      LET k == conn[c] IN
      (Answered(c) /\ k.req.method = "GET" /\ k.req.path = "/health") =>
        /\ "loaded" \in DOMAIN k.resp.body
        /\ k.resp.body.loaded = ~model.isNone

\* C13 amended: the /health response is a constant, not computed from the
\* model state: loaded or not, /health is answered 200 with status "healthy",
\* the service name, the model name and dimensions 1024, and no loaded field.
C13_HealthIsStatic ==
    \A c \in Clients :
      LET k == conn[c] IN
      (Answered(c) /\ k.req.method = "GET" /\ k.req.path = "/health") =>
        /\ k.resp.status = 200
        /\ k.resp.body = [kind |-> "health", status |-> "healthy",
                          service |-> "embedding-service",
                          model |-> "intfloat/multilingual-e5-large",
                          dimensions |-> 1024]
        /\ "loaded" \notin DOMAIN k.resp.body

C13_Witness ==
    /\ model.isNone
    /\ \E c \in Clients :
         /\ Answered(c) /\ conn[c].endpoint = "health"
         /\ conn[c].resp.status = 200 /\ conn[c].resp.body.status = "healthy"

\* C14: a 500 answer comes only from embed or embed_batch after their one
\* encode call raised, as the structured {"detail": ...} error of the handler;
\* the step that produces it leaves the model, the process phase and every
\* other connection as they were, so the model stays loaded and the process
\* keeps serving.
C14_EncodeFailureContained ==
    /\ [](\A c \in Clients :
            conn[c].resp.status = 500 =>
              /\ conn[c].endpoint \in {"embed", "embed_batch"}
              /\ conn[c].encodeCalls = 1
              /\ conn[c].resp.body \in
                   {HTTPException(500, "Failed to generate embedding").body,
                    HTTPException(500, "Failed to generate embeddings").body}
              /\ ~model.isNone
              /\ phase \in {"serving", "stopped"})
    /\ [][\A c \in Clients :
            (conn[c].resp.status # 500 /\ conn'[c].resp.status = 500) =>
              /\ model' = model
              /\ phase' = phase
              /\ \A d \in Clients \ {c} : conn'[d] = conn[d]]_vars

C14_Witness ==
    /\ phase = "serving"
    /\ ~model.isNone
    /\ \E c, d \in Clients :
         /\ Answered(c) /\ conn[c].endpoint = "embed" /\ conn[c].resp.status = 500
         /\ Answered(d) /\ conn[d].endpoint = "embed_batch"
         /\ conn[d].resp.status = 200

\* C15: the model changes only in the lifespan startup, from None, before any
\* request is accepted; once loaded no step changes it; and no step changes
\* the configured token.
C15_ModelWriteOnce ==
    [][/\ AUTH_TOKEN' = AUTH_TOKEN
       /\ ~model.isNone => model' = model
       /\ model' # model =>
            /\ phase = "starting"
            /\ conn' = conn
            /\ \A c \in Clients : conn[c] = Idle]_vars

C15_Witness ==
    /\ phase = "stopped"
    /\ ~model.isNone
    /\ \E c, d \in Clients :
         /\ Answered(c) /\ conn[c].resp.status = 500
         /\ Answered(d) /\ conn[d].resp.status = 401

\* C16: the gates apply in the order auth, validation, readiness: with a secret
\* configured a request to a path other than /health without the exact
\* credential is answered 401 whatever its body and the model state, and an
\* admitted POST /embed with empty text or POST /embed/batch with an empty
\* list is answered 422, not 503, also while the model is not loaded.
C16_GateOrder ==
    \A c \in Clients :
      LET k == conn[c] IN
      Answered(c) =>
        /\ (Truthy(AUTH_TOKEN) /\ k.req.path # "/health"
            /\ k.req.auth # Bearer(AUTH_TOKEN)) => k.resp.status = 401
        /\ (/\ k.admitted
            /\ \/ k.req.method = "POST" /\ k.req.path = "/embed"
                  /\ k.req.body.text = Some("")
               \/ k.req.method = "POST" /\ k.req.path = "/embed/batch"
                  /\ k.req.body.texts = Some(<<>>)) => k.resp.status = 422

C16_Witness ==
    /\ model.isNone
    /\ Truthy(AUTH_TOKEN)
    /\ \E c, d \in Clients :
         /\ Answered(c) /\ conn[c].req.path = "/embed"
         /\ conn[c].req.body.text = Some("") /\ conn[c].req.auth = None
         /\ conn[c].resp.status = 401
         /\ Answered(d) /\ conn[d].req.path = "/embed"
         /\ conn[d].req.body.text = Some("") /\ conn[d].admitted
         /\ conn[d].resp.status = 422

\* C17: encode is called at most once per request: exactly once for a request
\* whose embed or embed_batch endpoint ran with the model loaded (one call for
\* the whole batch, none repeated after a failure) and never for any other
\* request; a response once produced is not replaced, a request once answered
\* stays answered until its connection is reused; and every accepted request
\* is eventually answered.
C17_OnceAndEventually ==
    /\ [](\A c \in Clients :
            LET k == conn[c] IN
            /\ k.encodeCalls <= 1
            /\ k.pc \in {"ret", "done"} =>
                 (k.encodeCalls = 1 <=>
                    (k.invoked /\ k.endpoint \in {"embed", "embed_batch"}
                     /\ ~model.isNone))
            /\ (Answered(c) /\ k.admitted /\ IsEmbed(k)
                /\ BodyValid(Dispatch(k.req), k.req.body) /\ ~model.isNone) =>
                 k.encodeCalls = 1)
    /\ [][\A c \in Clients :
            /\ conn[c].resp.status # 0 =>
                 \/ conn'[c] = Idle
                 \/ /\ conn'[c].resp.status = conn[c].resp.status
                    /\ conn'[c].resp.body = conn[c].resp.body
                    /\ conn'[c].encodeCalls = conn[c].encodeCalls
            /\ conn[c].pc = "done" => (conn'[c] = conn[c] \/ conn'[c] = Idle)]_vars
    /\ \A c \in Clients :
         (conn[c].pc \notin {"idle", "done"}) ~> (conn[c].pc = "done")

C17_Witness ==
    \E c \in Clients :
      /\ Answered(c) /\ conn[c].endpoint = "embed_batch"
      /\ Len(conn[c].req.body.texts[1]) = 2
      /\ conn[c].encodeCalls = 1 /\ conn[c].resp.status = 500

\* C18: whenever the batched encode returns, embed_batch answers 200 with the
\* returned vectors as embeddings; if the result is the empty sequence the
\* dimensions field is 0, otherwise it is the length of the first vector.
C18_EmptyResultDimensionsZero ==
    \A c \in Clients :
      LET k == conn[c] IN
      (k.endpoint = "embed_batch" /\ k.encoded # None) =>
        /\ k.resp.status = 200
        /\ k.resp.body.embeddings = k.encoded[1]
        /\ k.resp.body.dimensions =
             IF k.encoded[1] = <<>> THEN 0 ELSE k.encoded[1][1].len

C18_Witness ==
    \E c \in Clients :
      /\ Answered(c) /\ conn[c].endpoint = "embed_batch"
      /\ conn[c].encoded = Some(<<>>)
      /\ conn[c].resp.status = 200
      /\ conn[c].resp.body.embeddings = <<>>
      /\ conn[c].resp.body.dimensions = 0

\* C19: when the configured token is absent or the empty string, every request
\* passes the auth gate whatever its Authorization header and none is answered
\* 401; and only then: with any other token a request to a path other than
\* /health that carries no header is answered 401.
C19_OpenMode ==
    \A c \in Clients :
      LET k == conn[c] IN
      /\ (AUTH_TOKEN = None \/ AUTH_TOKEN = Some("")) =>
           /\ k.resp.status # 401
           /\ k.pc \in {"router", "endpoint", "ret", "done"} => k.admitted
      /\ (AUTH_TOKEN # None /\ AUTH_TOKEN # Some("") /\ Answered(c)
          /\ k.req.path # "/health" /\ k.req.auth = None) =>
           (~k.admitted /\ k.resp.status = 401)

C19_Witness ==
    /\ AUTH_TOKEN = Some("")
    /\ \E c, d \in Clients :
         /\ Answered(c) /\ conn[c].req.path = "/embed"
         /\ conn[c].req.auth = Some("Bearer wrong")
         /\ conn[c].admitted /\ conn[c].resp.status = 200
         /\ Answered(d) /\ conn[d].req.path = "/model/info"
         /\ conn[d].req.auth = None
         /\ conn[d].admitted /\ conn[d].resp.status = 200

====
